---------------------------- MODULE Spec2Model ----------------------------
(***************************************************************************)
(* Bible MCP Server (src/server.py): four tools that each issue one HTTP   *)
(* GET against bible-api.com and format the JSON answer as text, two       *)
(* constant resources and two prompt templates.                            *)
(*                                                                         *)
(* A Python str is a sequence of one-character strings.  A Python value    *)
(* whose type matters (an argument that may be None, a JSON document) is a *)
(* record [type |-> ..., ...].                                             *)
(***************************************************************************)
EXTENDS Integers, Sequences, FiniteSets

VARIABLES pc, tool, args, locals, url, gets, response, body_read, outcome,
          rng_state, rng_writers

vars == <<pc, tool, args, locals, url, gets, response, body_read, outcome,
          rng_state, rng_writers>>

(***************************************************************************)
(* Python values                                                           *)
(***************************************************************************)
PyNone == [type |-> "NoneType"]

PyStr(s) == [type |-> "str", val |-> s]

PyInt(n) == [type |-> "int", val |-> n]

\* Truth value testing of Python: None, 0, "" and empty containers are falsy.
Falsy_none_only(v) == v.type = "NoneType"

Falsy(v) ==
  CASE v.type = "NoneType" -> TRUE
    [] v.type = "int"      -> v.val = 0
    [] v.type = "str"      -> v.val = <<>>
    [] v.type = "list"     -> v.items = <<>>
    [] v.type = "dict"     -> v.keys = {}

\* `x or d`: x when x is truthy, else d.
OrDefault_none_only(v, d) == IF v.type = "NoneType" THEN d ELSE v

OrDefault(v, d) == IF Falsy(v) THEN d ELSE v

DigitChar(d) == <<"0", "1", "2", "3", "4", "5", "6", "7", "8", "9">>[d + 1]

RECURSIVE NatToStr(_)
NatToStr(n) == IF n < 10 THEN <<DigitChar(n)>>
               ELSE NatToStr(n \div 10) \o <<DigitChar(n % 10)>>

\* str(int): decimal digits, "-" in front of a negative number.
IntToStr_last_digit(n) == <<DigitChar((IF n < 0 THEN -n ELSE n) % 10)>>

IntToStr(n) == IF n < 0 THEN <<"-">> \o NatToStr(-n) ELSE NatToStr(n)

\* What an f-string puts for {v}.
Format(v) ==
  CASE v.type = "str"      -> v.val
    [] v.type = "int"      -> IntToStr(v.val)
    [] v.type = "NoneType" -> <<"N","o","n","e">>

\* f"{n:2d}": right-aligned in a field of width 2.
Format2d(n) == IF Len(IntToStr(n)) < 2 THEN <<" ">> \o IntToStr(n) ELSE IntToStr(n)

\* The whitespace characters that occur in the texts here.
Whitespace == {" ", "\t", "\n", "\r"}

RECURSIVE lstrip(_)
lstrip(s) == IF s # <<>> /\ Head(s) \in Whitespace THEN lstrip(Tail(s)) ELSE s

RECURSIVE rstrip(_)
rstrip(s) == IF s # <<>> /\ s[Len(s)] \in Whitespace
             THEN rstrip(SubSeq(s, 1, Len(s) - 1)) ELSE s

\* str.strip(): whitespace removed from both ends.
strip(s) == rstrip(lstrip(s))

\* sep.join(parts)
RECURSIVE join(_, _)
join(sep, parts) ==
  IF parts = <<>> THEN <<>>
  ELSE IF Len(parts) = 1 THEN parts[1]
  ELSE parts[1] \o sep \o join(sep, Tail(parts))

\* seq[:n]: the first n items; a negative n counts from the end.
slice_to(seq, n) ==
  IF n >= 0 THEN SubSeq(seq, 1, IF n < Len(seq) THEN n ELSE Len(seq))
  ELSE SubSeq(seq, 1, IF Len(seq) + n > 0 THEN Len(seq) + n ELSE 0)

Returned(s) == [kind |-> "return", value |-> s]

Raised(e) == [kind |-> "raise", exc |-> e]

NoOutcome == [kind |-> "none"]

(***************************************************************************)
(* The upstream answer: response.status_code and what response.json()      *)
(* gives.  json.type is "dict", "list" or "NoneType" for a JSON object,    *)
(* array or null, and "invalid" for a body that is not JSON, on which      *)
(* response.json() raises.  Fields that are present hold the types of the  *)
(* upstream schema: error, reference, translation_name and text are        *)
(* strings, verses is a list of {verse: int, text: str}.                   *)
(***************************************************************************)
Base == <<"h","t","t","p","s",":","/","/","b","i","b","l","e","-","a","p","i",".","c","o","m","/">>

\* `key in data`: a dict is asked for the key; the lists the upstream sends
\* hold objects, never the string; None is not iterable.
HasKey(data, key) == data.type = "dict" /\ key \in data.keys

\* Does evaluating data[k1], data[k2], ... raise?
Subscriptable(data, keys) == data.type = "dict" /\ keys \subseteq data.keys

SubscriptError(data) == IF data.type = "dict" THEN Raised("KeyError") ELSE Raised("TypeError")

\* Line 30: is response.json() called at all?
reads_body(resp) == resp.status_code = 200

\* ---- get_verse (src/server.py) ----
\* Line 28, with translation as line 27 left it.
get_verse_url(reference, translation) ==
  Base \o reference \o <<"?","t","r","a","n","s","l","a","t","i","o","n","=">> \o Format(translation)

get_verse_result_echo(reference, resp) ==
  IF resp.status_code = 200 /\ Subscriptable(resp.json, {"translation_name", "text"})
     /\ ~ HasKey(resp.json, "error")
  THEN Returned(reference \o <<" ","(">> \o resp.json.fields.translation_name \o <<")",":","\n">>
                \o strip(resp.json.fields.text))
  ELSE Returned(<<"E","r","r","o","r"," ","f","e","t","c","h","i","n","g"," ","v","e","r","s","e",
                  ":"," ","H","T","T","P"," ">> \o IntToStr(resp.status_code))

get_verse_result(reference, resp) ==
  IF resp.status_code = 200 THEN
    LET data == resp.json IN
    IF data.type = "invalid" THEN Raised("JSONDecodeError")
    ELSE IF data.type = "NoneType" THEN Raised("TypeError")
    ELSE IF HasKey(data, "error") THEN Returned(<<"E","r","r","o","r",":"," ">> \o data.fields.error)
    ELSE IF ~ Subscriptable(data, {"reference", "translation_name", "text"})
         THEN SubscriptError(data)
    ELSE Returned(data.fields.reference \o <<" ","(">> \o data.fields.translation_name \o <<")",":","\n">>
                  \o strip(data.fields.text))
  ELSE Returned(<<"E","r","r","o","r"," ","f","e","t","c","h","i","n","g"," ","v","e","r","s","e",
                  ":"," ","H","T","T","P"," ">> \o IntToStr(resp.status_code))

\* ---- search_verses (src/server.py) ----
\* Line 51, with limit as line 50 left it.
search_verses_url(query, limit) ==
  Base \o <<"s","e","a","r","c","h","/">> \o query \o <<"?","l","i","m","i","t","=">> \o Format(limit)

\* Lines 57-59: one "{reference}: {text}" per item of data[:limit].
search_entries(items) ==
  [i \in 1..Len(items) |-> items[i].reference \o <<":"," ">> \o strip(items[i].text)]

search_verses_result(query, limit, resp) ==
  IF resp.status_code = 200 THEN
    LET data == resp.json IN
    IF data.type = "invalid" THEN Raised("JSONDecodeError")
    ELSE IF Falsy(data) THEN Returned(<<"N","o"," ","v","e","r","s","e","s"," ","f","o","u","n","d",
                                        " ","c","o","n","t","a","i","n","i","n","g"," ","'">> \o query \o <<"'">>)
    ELSE IF data.type # "list" THEN Raised("TypeError")   \* a dict takes no slice
    ELSE LET taken == slice_to(data.items, limit.val) IN
         IF \E i \in 1..Len(taken) : ~ {"reference", "text"} \subseteq DOMAIN taken[i]
         THEN Raised("KeyError")
         ELSE LET results == search_entries(taken) IN
              Returned(<<"F","o","u","n","d"," ">> \o IntToStr(Len(results)) \o <<" ","v","e","r","s","e","(","s",")",
                                                                                  " ","f","o","r"," ","'">> \o query
                       \o <<"'",":","\n","\n">> \o join(<<"\n","\n">>, results))
  ELSE Returned(<<"E","r","r","o","r"," ","s","e","a","r","c","h","i","n","g"," ","v","e","r","s",
                  "e","s",":"," ","H","T","T","P"," ">> \o IntToStr(resp.status_code))

\* ---- get_chapter (src/server.py) ----
get_chapter_url(book_chapter, translation) ==
  Base \o book_chapter \o <<"?","t","r","a","n","s","l","a","t","i","o","n","=">> \o Format(translation)

\* Lines 84-85: chapter_text += f"{verse['verse']}. {verse['text']}\n" per verse.
RECURSIVE chapter_lines_joined(_)
chapter_lines_joined(verses) ==
  IF verses = <<>> THEN <<>>
  ELSE IntToStr(Head(verses).verse) \o <<"."," ">> \o Head(verses).text
       \o chapter_lines_joined(Tail(verses))

RECURSIVE chapter_lines(_)
chapter_lines(verses) ==
  IF verses = <<>> THEN <<>>
  ELSE IntToStr(Head(verses).verse) \o <<"."," ">> \o Head(verses).text \o <<"\n">>
       \o chapter_lines(Tail(verses))

get_chapter_result(resp) ==
  IF resp.status_code = 200 THEN
    LET data == resp.json IN
    IF data.type = "invalid" THEN Raised("JSONDecodeError")
    ELSE IF data.type = "NoneType" THEN Raised("TypeError")
    ELSE IF HasKey(data, "error") THEN Returned(<<"E","r","r","o","r",":"," ">> \o data.fields.error)
    ELSE IF ~ Subscriptable(data, {"reference", "translation_name", "verses"})
         THEN SubscriptError(data)
    ELSE Returned(strip(data.fields.reference \o <<" ","(">> \o data.fields.translation_name
                        \o <<")",":","\n","\n">> \o chapter_lines(data.fields.verses)))
  ELSE Returned(<<"E","r","r","o","r"," ","f","e","t","c","h","i","n","g"," ","c","h","a","p","t",
                  "e","r",":"," ","H","T","T","P"," ">> \o IntToStr(resp.status_code))

\* ---- get_random_verse (src/server.py) ----
inspiring_verses ==
  << <<"J","e","r","e","m","i","a","h"," ","2","9",":","1","1">>,
     <<"R","o","m","a","n","s"," ","8",":","2","8">>,
     <<"P","h","i","l","i","p","p","i","a","n","s"," ","4",":","1","3">>,
     <<"J","o","h","n"," ","3",":","1","6">>,
     <<"P","s","a","l","m"," ","2","3",":","1">>,
     <<"I","s","a","i","a","h"," ","4","0",":","3","1">>,
     <<"P","r","o","v","e","r","b","s"," ","3",":","5","-","6">>,
     <<"M","a","t","t","h","e","w"," ","2","8",":","2","0">>,
     <<"R","o","m","a","n","s"," ","8",":","3","1">>,
     <<"E","p","h","e","s","i","a","n","s"," ","2",":","8","-","9">>,
     <<"P","s","a","l","m"," ","4","6",":","1">>,
     <<"I","s","a","i","a","h"," ","4","1",":","1","0">> >>

\* random.choice(seq): the items it may return.
random_choice(seq) == {seq[i] : i \in 1..Len(seq)}

get_random_verse_url_swapped(verse_ref, translation) ==
  Base \o Format(translation) \o <<"?","t","r","a","n","s","l","a","t","i","o","n","=">> \o verse_ref

get_random_verse_url(verse_ref, translation) ==
  Base \o verse_ref \o <<"?","t","r","a","n","s","l","a","t","i","o","n","=">> \o Format(translation)

get_random_verse_result(resp) ==
  IF resp.status_code = 200 THEN
    LET data == resp.json IN
    IF data.type = "invalid" THEN Raised("JSONDecodeError")
    ELSE IF ~ Subscriptable(data, {"reference", "translation_name", "text"})
         THEN SubscriptError(data)
    ELSE Returned(<<"R","a","n","d","o","m"," ","V","e","r","s","e"," ","-"," ">> \o data.fields.reference \o <<" ","(">>
                  \o data.fields.translation_name \o <<")",":","\n">> \o strip(data.fields.text))
  ELSE Returned(<<"E","r","r","o","r"," ","f","e","t","c","h","i","n","g"," ","r","a","n","d","o",
                  "m"," ","v","e","r","s","e",":"," ","H","T","T","P"," ">> \o IntToStr(resp.status_code))

\* ---- resources and prompts (src/server.py) ----
books ==
  << <<"G","e","n","e","s","i","s"," ","(","G","e","n",")">>,
     <<"E","x","o","d","u","s"," ","(","E","x","o",")">>,
     <<"L","e","v","i","t","i","c","u","s"," ","(","L","e","v",")">>,
     <<"N","u","m","b","e","r","s"," ","(","N","u","m",")">>,
     <<"D","e","u","t","e","r","o","n","o","m","y"," ","(","D","e","u",")">>,
     <<"J","o","s","h","u","a"," ","(","J","o","s",")">>,
     <<"J","u","d","g","e","s"," ","(","J","d","g",")">>,
     <<"R","u","t","h"," ","(","R","u","t",")">>,
     <<"1"," ","S","a","m","u","e","l"," ","(","1","S","a",")">>,
     <<"2"," ","S","a","m","u","e","l"," ","(","2","S","a",")">>,
     <<"1"," ","K","i","n","g","s"," ","(","1","K","i",")">>,
     <<"2"," ","K","i","n","g","s"," ","(","2","K","i",")">>,
     <<"1"," ","C","h","r","o","n","i","c","l","e","s"," ","(","1","C","h",")">>,
     <<"2"," ","C","h","r","o","n","i","c","l","e","s"," ","(","2","C","h",")">>,
     <<"E","z","r","a"," ","(","E","z","r",")">>,
     <<"N","e","h","e","m","i","a","h"," ","(","N","e","h",")">>,
     <<"E","s","t","h","e","r"," ","(","E","s","t",")">>,
     <<"J","o","b"," ","(","J","o","b",")">>,
     <<"P","s","a","l","m","s"," ","(","P","s","a",")">>,
     <<"P","r","o","v","e","r","b","s"," ","(","P","r","o",")">>,
     <<"E","c","c","l","e","s","i","a","s","t","e","s"," ","(","E","c","c",")">>,
     <<"S","o","n","g"," ","o","f"," ","S","o","l","o","m","o","n"," ","(","S","o","n",")">>,
     <<"I","s","a","i","a","h"," ","(","I","s","a",")">>,
     <<"J","e","r","e","m","i","a","h"," ","(","J","e","r",")">>,
     <<"L","a","m","e","n","t","a","t","i","o","n","s"," ","(","L","a","m",")">>,
     <<"E","z","e","k","i","e","l"," ","(","E","z","e",")">>,
     <<"D","a","n","i","e","l"," ","(","D","a","n",")">>,
     <<"H","o","s","e","a"," ","(","H","o","s",")">>,
     <<"J","o","e","l"," ","(","J","o","e",")">>,
     <<"A","m","o","s"," ","(","A","m","o",")">>,
     <<"O","b","a","d","i","a","h"," ","(","O","b","a",")">>,
     <<"J","o","n","a","h"," ","(","J","o","n",")">>,
     <<"M","i","c","a","h"," ","(","M","i","c",")">>,
     <<"N","a","h","u","m"," ","(","N","a","h",")">>,
     <<"H","a","b","a","k","k","u","k"," ","(","H","a","b",")">>,
     <<"Z","e","p","h","a","n","i","a","h"," ","(","Z","e","p",")">>,
     <<"H","a","g","g","a","i"," ","(","H","a","g",")">>,
     <<"Z","e","c","h","a","r","i","a","h"," ","(","Z","e","c",")">>,
     <<"M","a","l","a","c","h","i"," ","(","M","a","l",")">>,
     <<"M","a","t","t","h","e","w"," ","(","M","a","t",")">>,
     <<"M","a","r","k"," ","(","M","a","r",")">>,
     <<"L","u","k","e"," ","(","L","u","k",")">>,
     <<"J","o","h","n"," ","(","J","o","h",")">>,
     <<"A","c","t","s"," ","(","A","c","t",")">>,
     <<"R","o","m","a","n","s"," ","(","R","o","m",")">>,
     <<"1"," ","C","o","r","i","n","t","h","i","a","n","s"," ","(","1","C","o",")">>,
     <<"2"," ","C","o","r","i","n","t","h","i","a","n","s"," ","(","2","C","o",")">>,
     <<"G","a","l","a","t","i","a","n","s"," ","(","G","a","l",")">>,
     <<"E","p","h","e","s","i","a","n","s"," ","(","E","p","h",")">>,
     <<"P","h","i","l","i","p","p","i","a","n","s"," ","(","P","h","i",")">>,
     <<"C","o","l","o","s","s","i","a","n","s"," ","(","C","o","l",")">>,
     <<"1"," ","T","h","e","s","s","a","l","o","n","i","a","n","s"," ","(","1","T","h",")">>,
     <<"2"," ","T","h","e","s","s","a","l","o","n","i","a","n","s"," ","(","2","T","h",")">>,
     <<"1"," ","T","i","m","o","t","h","y"," ","(","1","T","i",")">>,
     <<"2"," ","T","i","m","o","t","h","y"," ","(","2","T","i",")">>,
     <<"T","i","t","u","s"," ","(","T","i","t",")">>,
     <<"P","h","i","l","e","m","o","n"," ","(","P","h","m",")">>,
     <<"H","e","b","r","e","w","s"," ","(","H","e","b",")">>,
     <<"J","a","m","e","s"," ","(","J","a","m",")">>,
     <<"1"," ","P","e","t","e","r"," ","(","1","P","e",")">>,
     <<"2"," ","P","e","t","e","r"," ","(","2","P","e",")">>,
     <<"1"," ","J","o","h","n"," ","(","1","J","o",")">>,
     <<"2"," ","J","o","h","n"," ","(","2","J","o",")">>,
     <<"3"," ","J","o","h","n"," ","(","3","J","o",")">>,
     <<"J","u","d","e"," ","(","J","u","d",")">>,
     <<"R","e","v","e","l","a","t","i","o","n"," ","(","R","e","v",")">> >>

\* Line 136: header, then "{i+1:2d}. {book}" per book, joined by newlines.
bible_books ==
  <<"B","i","b","l","e"," ","B","o","o","k","s"," ","(">> \o IntToStr(Len(books)) \o <<" ","t","o","t","a","l",")",":","\n",
                                                                                       "\n">>
  \o join(<<"\n">>, [i \in 1..Len(books) |-> Format2d(i) \o <<"."," ">> \o books[i]])

\* The dict of line 141, in insertion order, as <<code, name>> pairs.
translations ==
  << << <<"K","J","V">>, <<"K","i","n","g"," ","J","a","m","e","s"," ","V","e","r","s","i","o","n",
                           " ","(","1","7","6","9",")">> >>,
     << <<"A","S","V">>, <<"A","m","e","r","i","c","a","n"," ","S","t","a","n","d","a","r","d"," ",
                           "V","e","r","s","i","o","n"," ","(","1","9","0","1",")">> >>,
     << <<"B","B","E">>, <<"B","i","b","l","e"," ","i","n"," ","B","a","s","i","c"," ","E","n","g",
                           "l","i","s","h"," ","(","1","9","6","5",")">> >>,
     << <<"W","E","B">>, <<"W","o","r","l","d"," ","E","n","g","l","i","s","h"," ","B","i","b","l",
                           "e">> >>,
     << <<"Y","L","T">>, <<"Y","o","u","n","g","s"," ","L","i","t","e","r","a","l"," ","T","r","a",
                           "n","s","l","a","t","i","o","n"," ","(","1","8","9","8",")">> >>,
     << <<"D","A","R","B","Y">>, <<"D","a","r","b","y"," ","T","r","a","n","s","l","a","t","i","o",
                                   "n"," ","(","1","8","9","0",")">> >> >>

bible_translations ==
  <<"A","v","a","i","l","a","b","l","e"," ","B","i","b","l","e"," ","T","r","a","n","s","l","a","t",
    "i","o","n","s",":","\n","\n">>
  \o join(<<"\n">>, [i \in 1..Len(translations) |->
                      translations[i][1] \o <<":"," ">> \o translations[i][2]])
  \o <<"\n","\n","N","o","t","e",":"," ","U","s","e"," ","t","h","e"," ","c","o","d","e"," ","(",
       "e",".","g",".",","," ","'","K","J","V","'",")"," ","w","h","e","n"," ","s","p","e","c","i",
       "f","y","i","n","g"," ","t","r","a","n","s","l","a","t","i","o","n"," ","i","n"," ","t","o",
       "o","l","s",".">>

bible_study(topic_or_passage, study_level) ==
  <<"C","r","e","a","t","e"," ","a"," ","c","o","m","p","r","e","h","e","n","s","i","v","e"," ","B",
    "i","b","l","e"," ","s","t","u","d","y"," ","g","u","i","d","e"," ","f","o","r",":"," ">>
  \o topic_or_passage
  \o <<"\n">>
  \o <<"\n">>
  \o <<"S","t","u","d","y"," ","L","e","v","e","l",":"," ">>
  \o study_level
  \o <<"\n">>
  \o <<"\n">>
  \o <<"P","l","e","a","s","e"," ","i","n","c","l","u","d","e",":","\n">>
  \o <<"1","."," ","*","*","K","e","y"," ","V","e","r","s","e","s","*","*",":"," ","3","-","5"," ",
       "r","e","l","e","v","a","n","t"," ","B","i","b","l","e"," ","v","e","r","s","e","s"," ","w",
       "i","t","h"," ","r","e","f","e","r","e","n","c","e","s","\n">>
  \o <<"2","."," ","*","*","C","o","n","t","e","x","t","*","*",":"," ","H","i","s","t","o","r","i",
       "c","a","l"," ","a","n","d"," ","c","u","l","t","u","r","a","l"," ","b","a","c","k","g","r",
       "o","u","n","d","\n">>
  \o <<"3","."," ","*","*","M","a","i","n"," ","T","h","e","m","e","s","*","*",":"," ","C","o","r",
       "e"," ","t","h","e","o","l","o","g","i","c","a","l"," ","c","o","n","c","e","p","t","s",
       "\n">>
  \o <<"4","."," ","*","*","A","p","p","l","i","c","a","t","i","o","n","*","*",":"," ","H","o","w",
       " ","t","h","i","s"," ","a","p","p","l","i","e","s"," ","t","o"," ","m","o","d","e","r","n",
       " ","l","i","f","e","\n">>
  \o <<"5","."," ","*","*","D","i","s","c","u","s","s","i","o","n"," ","Q","u","e","s","t","i","o",
       "n","s","*","*",":"," ","3","-","4"," ","t","h","o","u","g","h","t","-","p","r","o","v","o",
       "k","i","n","g"," ","q","u","e","s","t","i","o","n","s","\n">>
  \o <<"6","."," ","*","*","P","r","a","y","e","r"," ","P","o","i","n","t","s","*","*",":"," ","S",
       "u","g","g","e","s","t","e","d"," ","a","r","e","a","s"," ","f","o","r"," ","p","r","a","y",
       "e","r","\n">>
  \o <<"7","."," ","*","*","F","u","r","t","h","e","r"," ","S","t","u","d","y","*","*",":"," ","R",
       "e","l","a","t","e","d"," ","p","a","s","s","a","g","e","s"," ","o","r"," ","t","o","p","i",
       "c","s"," ","t","o"," ","e","x","p","l","o","r","e","\n">>
  \o <<"\n">>
  \o <<"M","a","k","e"," ","t","h","i","s"," ","s","t","u","d","y"," ","g","u","i","d","e"," ","p",
       "r","a","c","t","i","c","a","l"," ","a","n","d"," ","a","c","c","e","s","s","i","b","l","e",
       " ","f","o","r"," ","p","e","r","s","o","n","a","l"," ","o","r"," ","g","r","o","u","p"," ",
       "s","t","u","d","y",".">>

daily_reflection(verse_or_theme, focus_area) ==
  <<"D","a","i","l","y"," ","D","e","v","o","t","i","o","n","a","l"," ","R","e","f","l","e","c","t",
    "i","o","n","\n">>
  \o <<"\n">>
  \o <<"*","*","S","c","r","i","p","t","u","r","e"," ","F","o","c","u","s","*","*",":"," ">>
  \o verse_or_theme
  \o <<"\n">>
  \o <<"*","*","L","i","f","e"," ","F","o","c","u","s","*","*",":"," ">>
  \o focus_area
  \o <<"\n">>
  \o <<"\n">>
  \o <<"C","r","e","a","t","e"," ","a"," ","m","e","a","n","i","n","g","f","u","l"," ","d","a","i",
       "l","y"," ","d","e","v","o","t","i","o","n","a","l"," ","t","h","a","t"," ","i","n","c","l",
       "u","d","e","s",":","\n">>
  \o <<"\n">>
  \o <<"1","."," ","*","*","O","p","e","n","i","n","g"," ","P","r","a","y","e","r","*","*",":"," ",
       "A"," ","b","r","i","e","f"," ","p","r","a","y","e","r"," ","t","o"," ","c","e","n","t","e",
       "r"," ","t","h","e"," ","h","e","a","r","t","\n">>
  \o <<"2","."," ","*","*","S","c","r","i","p","t","u","r","e"," ","R","e","a","d","i","n","g","*",
       "*",":"," ","T","h","e"," ","f","u","l","l"," ","t","e","x","t"," ","o","f"," ","t","h","e",
       " ","v","e","r","s","e","(","s",")","\n">>
  \o <<"3","."," ","*","*","R","e","f","l","e","c","t","i","o","n","*","*",":"," ","2","-","3"," ",
       "p","a","r","a","g","r","a","p","h","s"," ","e","x","p","l","o","r","i","n","g"," ","t","h",
       "e"," ","m","e","a","n","i","n","g"," ","a","n","d"," ","r","e","l","e","v","a","n","c","e",
       "\n">>
  \o <<"4","."," ","*","*","P","e","r","s","o","n","a","l"," ","A","p","p","l","i","c","a","t","i",
       "o","n","*","*",":"," ","S","p","e","c","i","f","i","c"," ","w","a","y","s"," ","t","o"," ",
       "a","p","p","l","y"," ","t","h","i","s"," ","t","r","u","t","h"," ","t","o","d","a","y",
       "\n">>
  \o <<"5","."," ","*","*","C","l","o","s","i","n","g"," ","P","r","a","y","e","r","*","*",":"," ",
       "A"," ","p","r","a","y","e","r"," ","i","n","c","o","r","p","o","r","a","t","i","n","g"," ",
       "t","h","e"," ","d","a","y","'","s"," ","l","e","s","s","o","n","\n">>
  \o <<"6","."," ","*","*","A","c","t","i","o","n"," ","S","t","e","p","*","*",":"," ","O","n","e",
       " ","c","o","n","c","r","e","t","e"," ","s","t","e","p"," ","t","o"," ","t","a","k","e"," ",
       "t","o","d","a","y","\n">>
  \o <<"\n">>
  \o <<"W","r","i","t","e"," ","t","h","i","s"," ","i","n"," ","a"," ","w","a","r","m",","," ","e",
       "n","c","o","u","r","a","g","i","n","g"," ","t","o","n","e"," ","t","h","a","t"," ","s","p",
       "e","a","k","s"," ","t","o"," ","b","o","t","h"," ","h","e","a","r","t"," ","a","n","d"," ",
       "m","i","n","d","."," ","M","a","k","e"," ","i","t"," ","p","r","a","c","t","i","c","a","l",
       " ","f","o","r"," ","s","o","m","e","o","n","e","'","s"," ","d","a","i","l","y"," ","w","a",
       "l","k"," ","w","i","t","h"," ","G","o","d",".">>

(***************************************************************************)
(* Bounds and the values the callers and the upstream are drawn from       *)
(***************************************************************************)
NumProcs == 2      \* invocations the framework may run at the same time

RngPeriod == 2     \* states of the pseudo-random generator that are told apart

MaxVerses == 2     \* longest `verses` list of an upstream chapter

MaxMatches == 11   \* longest upstream search result (the default limit is 10)

Procs == 1..NumProcs

References == { <<"J","o","h","n"," ","3",":","1","6">>, <<" ","p","s","a","l","m"," ","2","3"," ">> }

BookChapters == { <<"G","e","n","e","s","i","s"," ","1">>, <<"J","u","d","e">> }

Translations == { PyNone, PyStr(<<>>), PyStr(<<"w","e","b">>), PyStr(<<"K","J","V">>) }

Queries == { <<"l","o","v","e">>, <<"G","o","d","'","s">> }

Limits == { PyNone, PyInt(0), PyInt(1), PyInt(2), PyInt(-1), PyInt(-3) }

PromptTexts == { <<"f","a","i","t","h">>, <<"b","a","s","i","c">> }

ErrorStatuses == { 204, 404, 500 }

UpstreamReferences == { <<"J","o","h","n"," ","3",":","1","6">>, <<"P","s","a","l","m","s"," ","2","3">> }

VerseTexts == { <<"F","o","r"," ","G","o","d">>, <<"\n"," ","s","o"," ","l","o","v","e","d"," ",
                                                   "\n">>, <<"I","n","\n","h","i","m">>, <<>> }

ChapterTexts == { <<"W","o","r","d">>, <<"L","i","g","h","t"," ","\n">>, <<"a","\n","b">>, <<" ","G","o","d"," ">> }

JsonKeys == {"error", "reference", "translation_name", "text", "verses"}

\* A JSON object: the keys it has, and their values (<<>> stands at a key it
\* does not have, where nothing reads it).
Dict(f) ==
  [type |-> "dict", keys |-> DOMAIN f,
   fields |-> [k \in JsonKeys |-> IF k \in DOMAIN f THEN f[k] ELSE <<>>]]

List(items) == [type |-> "list", items |-> items]

VerseBodies ==
  { Dict([reference |-> r, translation_name |-> <<"K","i","n","g"," ","J","a","m","e","s"," ","V",
                                                  "e","r","s","i","o","n">>, text |-> t]) :
      r \in UpstreamReferences, t \in VerseTexts }

VerseLists ==
  UNION { { [i \in 1..n |-> [verse |-> i, text |-> ts[i]]] : ts \in [1..n -> ChapterTexts] } :
          n \in 0..MaxVerses }

RECURSIVE concat_texts(_)
concat_texts(verses) ==
  IF verses = <<>> THEN <<>> ELSE Head(verses).text \o concat_texts(Tail(verses))

ChapterBodies ==
  { Dict([reference |-> <<"G","e","n","e","s","i","s"," ","1">>, translation_name |-> <<"W","o","r","l","d"," ","E","n","g",
                                                                                        "l","i","s","h"," ","B","i","b","l",
                                                                                        "e">>,
          text |-> concat_texts(vs), verses |-> vs]) : vs \in VerseLists }

ErrorBodies ==
  { Dict([error |-> <<"n","o","t"," ","f","o","u","n","d">>]),
    Dict([error |-> <<"t","r","a","n","s","l","a","t","i","o","n"," ","n","o","t"," ","f","o","u",
                      "n","d">>, reference |-> <<"J","o","h","n"," ","3",":","1","6">>,
          translation_name |-> <<"K","i","n","g"," ","J","a","m","e","s"," ","V","e","r","s","i",
                                 "o","n">>, text |-> <<"F","o","r"," ","G","o","d">>,
          verses |-> <<[verse |-> 16, text |-> <<"F","o","r"," ","G","o","d">>]>>]) }

PartialBodies ==
  { Dict([reference |-> <<"J","o","h","n"," ","3",":","1","6">>]),
    Dict([reference |-> <<"J","o","h","n"," ","3",":","1","6">>, translation_name |-> <<"K","i","n","g"," ","J","a","m","e",
                                                                                        "s"," ","V","e","r","s","i","o","n">>]),
    Dict(<<>>) }

SearchItem(i) ==
  [reference |-> <<"P","s","a","l","m","s"," ">> \o IntToStr(i),
   text |-> IF i % 2 = 0 THEN <<" ","h","i","s"," ","l","o","v","e"," ","e","n","d","u","r","e","s",
                                " ","\n">> ELSE <<"G","o","d"," ","i","s"," ","l","o","v","e">>]

SearchBodies ==
  { List([i \in 1..n |-> SearchItem(i)]) : n \in 0..MaxMatches }
  \cup { List(<<SearchItem(1), [reference |-> <<"P","s","a","l","m","s"," ","2">>]>>) }

JsonBodies ==
  VerseBodies \cup ChapterBodies \cup ErrorBodies \cup PartialBodies \cup SearchBodies
  \cup { PyNone, [type |-> "invalid"] }

Responses ==
  { [status_code |-> 200, json |-> j] : j \in JsonBodies }
  \cup { [status_code |-> s, json |-> j] :
           s \in ErrorStatuses, j \in { [type |-> "invalid"], Dict([error |-> <<"n","o","t"," ","f","o","u","n","d">>]) } }

\* The values drawn when invocations run side by side.
ConcReferences == { <<"J","o","h","n"," ","3",":","1","6">> }

ConcTranslations == { PyNone }

ConcLimits == { PyInt(1) }

ConcResponses ==
  { [status_code |-> 200,
     json |-> Dict([reference |-> <<"J","o","h","n"," ","3",":","1","6">>, translation_name |-> <<"K","i","n","g"," ","J","a","m","e",
                                                                                                  "s"," ","V","e","r","s","i","o","n">>,
                    text |-> <<"F","o","r"," ","G","o","d">>, verses |-> <<[verse |-> 16, text |-> <<"F","o","r"," ","G","o","d">>]>>])],
    [status_code |-> 404, json |-> Dict([error |-> <<"n","o","t"," ","f","o","u","n","d">>])] }

NoLocals == [tool |-> "none"]

NoResponse == [status_code |-> 0]

(***************************************************************************)
(* The invocations.  A tool runs up to its requests.get (a Call action)    *)
(* and blocks; then either requests.get returns the upstream's answer and  *)
(* the tool runs from there to its return (a Return action), or it raises  *)
(* (NetworkFault).  Each invocation has its own frame: args, locals, url,  *)
(* response.                                                               *)
(***************************************************************************)
Init ==
  /\ pc = [p \in Procs |-> "idle"]
  /\ tool = [p \in Procs |-> "none"]
  /\ args = [p \in Procs |-> NoLocals]
  /\ locals = [p \in Procs |-> NoLocals]
  /\ url = [p \in Procs |-> <<>>]
  /\ gets = [p \in Procs |-> 0]
  /\ response = [p \in Procs |-> NoResponse]
  /\ body_read = [p \in Procs |-> FALSE]
  /\ outcome = [p \in Procs |-> NoOutcome]
  /\ rng_state \in 0..(RngPeriod - 1)
  /\ rng_writers = {}

\* Lines 29, 52, 78, 110: response = requests.get(url) is issued.
Issue_twice(p, t, a, l, u) ==
  /\ pc[p] = "idle"
  /\ pc' = [pc EXCEPT ![p] = "waiting"]
  /\ tool' = [tool EXCEPT ![p] = t]
  /\ args' = [args EXCEPT ![p] = a]
  /\ locals' = [locals EXCEPT ![p] = l]
  /\ url' = [url EXCEPT ![p] = u]
  /\ gets' = [gets EXCEPT ![p] = @ + 2]
  /\ UNCHANGED <<response, body_read, outcome>>

Issue(p, t, a, l, u) ==
  /\ pc[p] = "idle"
  /\ pc' = [pc EXCEPT ![p] = "waiting"]
  /\ tool' = [tool EXCEPT ![p] = t]
  /\ args' = [args EXCEPT ![p] = a]
  /\ locals' = [locals EXCEPT ![p] = l]
  /\ url' = [url EXCEPT ![p] = u]
  /\ gets' = [gets EXCEPT ![p] = @ + 1]
  /\ UNCHANGED <<response, body_read, outcome>>

\* The handler ends: a return value or an exception, and its frame is gone.
Finish_global(p, out, read) ==
  /\ pc' = [pc EXCEPT ![p] = IF out.kind = "return" THEN "returned" ELSE "raised"]
  /\ outcome' = [q \in Procs |-> out]
  /\ body_read' = [body_read EXCEPT ![p] = read]
  /\ locals' = [locals EXCEPT ![p] = NoLocals]
  /\ url' = [url EXCEPT ![p] = <<>>]

Finish(p, out, read) ==
  /\ pc' = [pc EXCEPT ![p] = IF out.kind = "return" THEN "returned" ELSE "raised"]
  /\ outcome' = [outcome EXCEPT ![p] = out]
  /\ body_read' = [body_read EXCEPT ![p] = read]
  /\ locals' = [locals EXCEPT ![p] = NoLocals]
  /\ url' = [url EXCEPT ![p] = <<>>]

Call_get_verse(p, Refs, Trans) ==
  \E reference \in Refs, translation \in Trans :
    LET translation2 == OrDefault(translation, PyStr(<<"k","j","v">>)) IN
    /\ Issue(p, "get_verse", [reference |-> reference, translation |-> translation],
             [tool |-> "get_verse", translation |-> translation2],
             get_verse_url(reference, translation2))
    /\ UNCHANGED <<rng_state, rng_writers>>

Return_get_verse(p, Resps) ==
  /\ pc[p] = "waiting" /\ tool[p] = "get_verse"
  /\ \E r \in Resps :
       /\ response' = [response EXCEPT ![p] = r]
       /\ Finish(p, get_verse_result(args[p].reference, r),
                 reads_body(r))
  /\ UNCHANGED <<tool, args, gets, rng_state, rng_writers>>

Call_search_verses(p, Qs, Lims) ==
  \E query \in Qs, limit \in Lims :
    LET limit2 == OrDefault(limit, PyInt(10)) IN
    /\ Issue(p, "search_verses", [query |-> query, limit |-> limit],
             [tool |-> "search_verses", limit |-> limit2],
             search_verses_url(query, limit2))
    /\ UNCHANGED <<rng_state, rng_writers>>

Return_search_verses(p, Resps) ==
  /\ pc[p] = "waiting" /\ tool[p] = "search_verses"
  /\ \E r \in Resps :
       /\ response' = [response EXCEPT ![p] = r]
       /\ Finish(p, search_verses_result(args[p].query, locals[p].limit, r),
                 reads_body(r))
  /\ UNCHANGED <<tool, args, gets, rng_state, rng_writers>>

Call_get_chapter(p, Chapters, Trans) ==
  \E book_chapter \in Chapters, translation \in Trans :
    LET translation2 == OrDefault(translation, PyStr(<<"k","j","v">>)) IN
    /\ Issue(p, "get_chapter", [book_chapter |-> book_chapter, translation |-> translation],
             [tool |-> "get_chapter", translation |-> translation2],
             get_chapter_url(book_chapter, translation2))
    /\ UNCHANGED <<rng_state, rng_writers>>

Return_get_chapter(p, Resps) ==
  /\ pc[p] = "waiting" /\ tool[p] = "get_chapter"
  /\ \E r \in Resps :
       /\ response' = [response EXCEPT ![p] = r]
       /\ Finish(p, get_chapter_result(r),
                 reads_body(r))
  /\ UNCHANGED <<tool, args, gets, rng_state, rng_writers>>

\* random.choice draws from the generator of the random module, which the
\* whole process shares: the draw reads its state and leaves a new one.  The
\* seed is unknown, so any item may come out.
Call_get_random_verse(p, Trans) ==
  \E translation \in Trans, verse_ref \in random_choice(inspiring_verses) :
    LET translation2 == OrDefault(translation, PyStr(<<"k","j","v">>)) IN
    /\ Issue(p, "get_random_verse", [translation |-> translation],
             [tool |-> "get_random_verse", inspiring_verses |-> inspiring_verses,
              verse_ref |-> verse_ref, translation |-> translation2],
             get_random_verse_url(verse_ref, translation2))
    /\ rng_state' = (rng_state + 1) % RngPeriod
    /\ rng_writers' = rng_writers \cup {p}

Return_get_random_verse(p, Resps) ==
  /\ pc[p] = "waiting" /\ tool[p] = "get_random_verse"
  /\ \E r \in Resps :
       /\ response' = [response EXCEPT ![p] = r]
       /\ Finish(p, get_random_verse_result(r),
                 reads_body(r))
  /\ UNCHANGED <<tool, args, gets, rng_state, rng_writers>>

\* requests.get raises (no connection, timeout of the socket, ...): nothing
\* in the tool catches it.
NetworkFault(p) ==
  /\ pc[p] = "waiting"
  /\ Finish(p, Raised("RequestException"), FALSE)
  /\ UNCHANGED <<tool, args, gets, response, rng_state, rng_writers>>

\* Resources and prompts: one step, no request.
Answer(p, t, a, text) ==
  /\ pc[p] = "idle"
  /\ tool' = [tool EXCEPT ![p] = t]
  /\ args' = [args EXCEPT ![p] = a]
  /\ Finish(p, Returned(text), FALSE)
  /\ UNCHANGED <<gets, response, rng_state, rng_writers>>

Read_bible_books(p) == Answer(p, "bible_books", NoLocals, bible_books)

Read_bible_translations(p) == Answer(p, "bible_translations", NoLocals, bible_translations)

Prompt_bible_study(p, Texts) ==
  \E topic_or_passage \in Texts, study_level \in Texts :
    Answer(p, "bible_study",
           [topic_or_passage |-> topic_or_passage, study_level |-> study_level],
           bible_study(topic_or_passage, study_level))

Prompt_daily_reflection(p, Texts) ==
  \E verse_or_theme \in Texts, focus_area \in Texts :
    Answer(p, "daily_reflection",
           [verse_or_theme |-> verse_or_theme, focus_area |-> focus_area],
           daily_reflection(verse_or_theme, focus_area))

\* The framework has taken the result; the worker is free for the next call.
Reset(p) ==
  /\ pc[p] \in {"returned", "raised"}
  /\ pc' = [pc EXCEPT ![p] = "idle"]
  /\ tool' = [tool EXCEPT ![p] = "none"]
  /\ args' = [args EXCEPT ![p] = NoLocals]
  /\ gets' = [gets EXCEPT ![p] = 0]
  /\ response' = [response EXCEPT ![p] = NoResponse]
  /\ body_read' = [body_read EXCEPT ![p] = FALSE]
  /\ outcome' = [outcome EXCEPT ![p] = NoOutcome]
  /\ rng_writers' = rng_writers \ {p}
  /\ UNCHANGED <<locals, url, rng_state>>

\* One invocation at a time, over the wide input sets.
Next ==
  \E p \in {1} :
    \/ Call_get_verse(p, References, Translations)
    \/ Return_get_verse(p, Responses)
    \/ Call_search_verses(p, Queries, Limits)
    \/ Return_search_verses(p, Responses)
    \/ Call_get_chapter(p, BookChapters, Translations)
    \/ Return_get_chapter(p, Responses)
    \/ Call_get_random_verse(p, Translations)
    \/ Return_get_random_verse(p, Responses)
    \/ NetworkFault(p)
    \/ Read_bible_books(p)
    \/ Read_bible_translations(p)
    \/ Prompt_bible_study(p, PromptTexts)
    \/ Prompt_daily_reflection(p, PromptTexts)
    \/ Reset(p)

Spec == Init /\ [][Next]_vars

\* NumProcs invocations side by side, in any interleaving.
NextConc ==
  \E p \in Procs :
    \/ Call_get_verse(p, ConcReferences, ConcTranslations)
    \/ Return_get_verse(p, ConcResponses)
    \/ Call_search_verses(p, ConcReferences, ConcLimits)
    \/ Return_search_verses(p, ConcResponses)
    \/ Call_get_chapter(p, ConcReferences, ConcTranslations)
    \/ Return_get_chapter(p, ConcResponses)
    \/ Call_get_random_verse(p, ConcTranslations)
    \/ Return_get_random_verse(p, ConcResponses)
    \/ NetworkFault(p)
    \/ Read_bible_books(p)
    \/ Read_bible_translations(p)
    \/ Prompt_bible_study(p, ConcReferences)
    \/ Prompt_daily_reflection(p, ConcReferences)
    \/ Reset(p)

SpecConc == Init /\ [][NextConc]_vars

(***************************************************************************)
(* Vocabulary of the properties: text read back the way a reader of the    *)
(* result would, without the operators the tools are written with.         *)
(***************************************************************************)
ToolNames == {"get_verse", "search_verses", "get_chapter", "get_random_verse"}

LookupTools == {"get_verse", "get_chapter", "get_random_verse"}

Finished(p) == pc[p] \in {"returned", "raised"}

\* The upstream answered invocation p (requests.get returned).
Answered(p) == Finished(p) /\ response[p] # NoResponse

IsPrefix(a, s) == Len(a) <= Len(s) /\ SubSeq(s, 1, Len(a)) = a

IsSuffix(a, s) == Len(a) <= Len(s) /\ SubSeq(s, Len(s) - Len(a) + 1, Len(s)) = a

Digits == {"0", "1", "2", "3", "4", "5", "6", "7", "8", "9"}

DigitValue(c) == CHOOSE d \in 0..9 : <<"0", "1", "2", "3", "4", "5", "6", "7", "8", "9">>[d + 1] = c

RECURSIVE DecimalValue(_)
DecimalValue(ds) ==
  IF ds = <<>> THEN 0
  ELSE 10 * DecimalValue(SubSeq(ds, 1, Len(ds) - 1)) + DigitValue(ds[Len(ds)])

\* ds is the decimal numeral of n: digits only, no leading zero, value n.
IsNumeral(ds, n) ==
  /\ ds # <<>>
  /\ \A i \in 1..Len(ds) : ds[i] \in Digits
  /\ (Len(ds) > 1 => ds[1] # "0")
  /\ DecimalValue(ds) = n

\* The decimal numeral of n, for 0 <= n < 1000.
NumeralOf(n) == CHOOSE ds \in UNION { [1..l -> Digits] : l \in 1..3 } : IsNumeral(ds, n)

\* The parts in order, with sep between neighbours.
Glue(sep, parts) ==
  LET RECURSIVE upto(_)
      upto(i) == IF i = 0 THEN <<>>
                 ELSE IF i = 1 THEN parts[1]
                 ELSE upto(i - 1) \o sep \o parts[i]
  IN upto(Len(parts))

\* s holds "HTTP " with the numeral of n right after it, up to the end of s.
EndsWithHttpStatus(s, n) ==
  \E i \in 1..(Len(s) - 5) :
    /\ SubSeq(s, i, i + 4) = <<"H","T","T","P"," ">>
    /\ IsNumeral(SubSeq(s, i + 5, Len(s)), n)

AllWhitespace(s) == \A i \in 1..Len(s) : s[i] \in {" ", "\t", "\n", "\r"}

\* t is s without its leading and trailing whitespace.
IsTrimOf(t, s) ==
  /\ (t # <<>> => ~ AllWhitespace(<<t[1]>>) /\ ~ AllWhitespace(<<t[Len(t)]>>))
  /\ \E i \in 0..Len(s) :
       /\ i + Len(t) <= Len(s)
       /\ SubSeq(s, i + 1, i + Len(t)) = t
       /\ AllWhitespace(SubSeq(s, 1, i))
       /\ AllWhitespace(SubSeq(s, i + Len(t) + 1, Len(s)))

Pieces(s) == { SubSeq(s, i, j) : i \in 1..(Len(s) + 1), j \in 0..Len(s) }

Trimmed(s) == CHOOSE t \in Pieces(s) : IsTrimOf(t, s)

\* t is s without its trailing whitespace.
RightTrimmed(s) ==
  CHOOSE t \in Pieces(s) :
    /\ IsPrefix(t, s)
    /\ AllWhitespace(SubSeq(s, Len(t) + 1, Len(s)))
    /\ (t # <<>> => ~ AllWhitespace(<<t[Len(t)]>>))

\* The lines of s: the pieces between its line breaks.
RECURSIVE LinesOf(_)
LinesOf(s) ==
  IF \A i \in 1..Len(s) : s[i] # "\n" THEN <<s>>
  ELSE LET k == CHOOSE i \in 1..Len(s) : s[i] = "\n" /\ \A j \in 1..(i - 1) : s[j] # "\n"
       IN <<SubSeq(s, 1, k - 1)>> \o LinesOf(SubSeq(s, k + 1, Len(s)))

FirstLine(s) == LinesOf(s)[1]

NonBlank(ls) == SelectSeq(ls, LAMBDA l : ~ AllWhitespace(l))

HasLineBreak(s) == \E i \in 1..Len(s) : s[i] = "\n"

\* A 200 answer whose JSON is an object.
OkDict(r) == r.status_code = 200 /\ r.json.type = "dict"

HasError(r) == OkDict(r) /\ "error" \in r.json.keys

Carries(r, keys) == OkDict(r) /\ keys \subseteq r.json.keys

(***************************************************************************)
(* Properties                                                              *)
(***************************************************************************)

\* C1: whenever the upstream answers one of the four tools with a status s
\* other than 200, the tool returns a string (it does not raise) that holds
\* "HTTP " followed by the decimal numeral of s, and response.json() was
\* never called.
C1_NonOkStatusReported ==
  \A p \in Procs :
    (tool[p] \in ToolNames /\ Answered(p) /\ response[p].status_code # 200)
      => /\ outcome[p].kind = "return"
         /\ EndsWithHttpStatus(outcome[p].value, response[p].status_code)
         /\ ~ body_read[p]

C1_Witness ==
  \E p \in Procs :
    /\ tool[p] = "get_random_verse" /\ Answered(p)
    /\ response[p] = [status_code |-> 404, json |-> Dict([error |-> <<"n","o","t"," ","f","o","u","n","d">>])]
    /\ outcome[p] = Returned(<<"E","r","r","o","r"," ","f","e","t","c","h","i","n","g"," ","r","a",
                               "n","d","o","m"," ","v","e","r","s","e",":"," ","H","T","T","P"," ",
                               "4","0","4">>)
    /\ ~ body_read[p]

\* C2: a 200 answer whose JSON object has an `error` field makes get_verse,
\* get_chapter and get_random_verse return "Error: " followed by the error
\* value, whatever else the object holds or lacks.
C2_ErrorFieldSurfaced ==
  \A p \in Procs :
    (tool[p] \in LookupTools /\ Answered(p) /\ HasError(response[p]))
      => outcome[p] = Returned(<<"E","r","r","o","r",":"," ">> \o response[p].json.fields.error)

\* C3: get_verse's result follows from the upstream answer alone: a status
\* other than 200 gives "Error fetching verse: HTTP {status}"; 200 with an
\* `error` field gives "Error: {error}"; 200 without one gives
\* "{reference} ({translation_name}):\n{text trimmed}" built from the upstream
\* fields, so it starts with the upstream reference followed by " (".
C3_GetVerseThreeWay ==
  \A p \in Procs :
    (tool[p] = "get_verse" /\ Answered(p)) =>
      LET r == response[p] IN
      /\ r.status_code # 200 =>
           outcome[p] = Returned(<<"E","r","r","o","r"," ","f","e","t","c","h","i","n","g"," ","v",
                                   "e","r","s","e",":"," ","H","T","T","P"," ">> \o NumeralOf(r.status_code))
      /\ HasError(r) => outcome[p] = Returned(<<"E","r","r","o","r",":"," ">> \o r.json.fields.error)
      /\ (Carries(r, {"reference", "translation_name", "text"}) /\ ~ HasError(r)) =>
           /\ outcome[p].kind = "return"
           /\ IsPrefix(r.json.fields.reference \o <<" ","(">>, outcome[p].value)
           /\ outcome[p].value =
                r.json.fields.reference \o <<" ","(">> \o r.json.fields.translation_name \o <<")",":","\n">>
                \o Trimmed(r.json.fields.text)

C3_Witness ==
  \E p \in Procs :
    /\ tool[p] = "get_verse" /\ Answered(p)
    /\ args[p].reference = <<" ","p","s","a","l","m"," ","2","3"," ">>
    /\ Carries(response[p], {"reference", "translation_name", "text"})
    /\ response[p].json.fields.text = <<"\n"," ","s","o"," ","l","o","v","e","d"," ","\n">>
    /\ outcome[p] = Returned(<<"J","o","h","n"," ","3",":","1","6"," ","(","K","i","n","g"," ","J",
                               "a","m","e","s"," ","V","e","r","s","i","o","n",")",":","\n","s","o",
                               " ","l","o","v","e","d">>)

\* The limit search_verses works with: the argument, or 10 when it is falsy.
EffectiveLimit(limit) == IF limit = PyNone \/ limit = PyInt(0) THEN 10 ELSE limit.val

MinOf(a, b) == IF a < b THEN a ELSE b

\* A 200 answer with a non-empty result list of well-formed entries.
HasMatches(r) ==
  /\ r.status_code = 200 /\ r.json.type = "list" /\ r.json.items # <<>>
  /\ \A i \in 1..Len(r.json.items) : {"reference", "text"} \subseteq DOMAIN r.json.items[i]

\* C4: with effective limit L and n upstream entries, search_verses returns
\* exactly min(n, L) entries (so at most L), the first ones in upstream
\* order, under the header "Found k verse(s) for '<query>':" with k the
\* number of entries.
C4_LimitCapsResults ==
  \A p \in Procs :
    (tool[p] = "search_verses" /\ Answered(p) /\ HasMatches(response[p])) =>
      LET items == response[p].json.items
          k == MinOf(Len(items), EffectiveLimit(args[p].limit))
      IN
      /\ k >= 0
      /\ outcome[p] =
           Returned(<<"F","o","u","n","d"," ">> \o NumeralOf(k) \o <<" ","v","e","r","s","e","(","s",")",
                                                                     " ","f","o","r"," ","'">> \o args[p].query
                    \o <<"'",":","\n","\n">>
                    \o Glue(<<"\n","\n">>, [i \in 1..k |-> items[i].reference \o <<":"," ">>
                                                       \o Trimmed(items[i].text)]))

\* C5: in the URL of get_verse, get_chapter and get_random_verse the value
\* after "?translation=" is "kjv" when the translation argument is None or
\* empty, and the argument itself, unchanged, otherwise.
C5_TranslationDefault ==
  \A p \in Procs :
    (tool[p] \in LookupTools /\ pc[p] = "waiting") =>
      LET t == args[p].translation IN
      IF t = PyNone \/ t = PyStr(<<>>)
      THEN IsSuffix(<<"?","t","r","a","n","s","l","a","t","i","o","n","=","k","j","v">>, url[p])
      ELSE IsSuffix(<<"?","t","r","a","n","s","l","a","t","i","o","n","=">> \o t.val, url[p])

C5_Witness ==
  \E p \in Procs :
    /\ tool[p] = "get_chapter" /\ pc[p] = "waiting"
    /\ args[p] = [book_chapter |-> <<"J","u","d","e">>, translation |-> PyStr(<<>>)]
    /\ url[p] = <<"h","t","t","p","s",":","/","/","b","i","b","l","e","-","a","p","i",".","c","o",
                  "m","/","J","u","d","e","?","t","r","a","n","s","l","a","t","i","o","n","=","k",
                  "j","v">>

\* A successful chapter answer: 200, an object without `error` that has the
\* three fields get_chapter reads.
ChapterOk(r) == Carries(r, {"reference", "translation_name", "verses"}) /\ ~ HasError(r)

SingleLine(s) ==
  \A i \in 1..Len(s) : s[i] = "\n" => AllWhitespace(SubSeq(s, i, Len(s)))

C7_EmptySearch ==
  \A p \in Procs :
    (/\ tool[p] = "search_verses" /\ Answered(p) /\ response[p].status_code = 200
     /\ response[p].json \in {PyNone, List(<<>>)}) =>
      /\ outcome[p] = Returned(<<"N","o"," ","v","e","r","s","e","s"," ","f","o","u","n","d"," ",
                                 "c","o","n","t","a","i","n","i","n","g"," ","'">> \o args[p].query \o <<"'">>)
      /\ ~ IsPrefix(<<"E","r","r","o","r">>, outcome[p].value)

C7_Witness ==
  \E p \in Procs :
    /\ tool[p] = "search_verses" /\ Answered(p)
    /\ args[p] = [query |-> <<"G","o","d","'","s">>, limit |-> PyInt(-1)]
    /\ response[p] = [status_code |-> 200, json |-> List(<<>>)]
    /\ outcome[p] = Returned(<<"N","o"," ","v","e","r","s","e","s"," ","f","o","u","n","d"," ","c",
                               "o","n","t","a","i","n","i","n","g"," ","'","G","o","d","'","s","'">>)

\* C8: while a get_random_verse invocation waits for its request, its list
\* is the fixed list of 12 references and the reference in its URL, between
\* the base and "?translation=", is one of the 12; this holds for each of
\* any number of invocations in a row.
C8_RandomFromFixedList ==
  \A p \in Procs :
    (tool[p] = "get_random_verse" /\ pc[p] = "waiting") =>
      /\ locals[p].inspiring_verses = inspiring_verses
      /\ Len(locals[p].inspiring_verses) = 12
      /\ \E i \in 1..12 :
           IsPrefix(<<"h","t","t","p","s",":","/","/","b","i","b","l","e","-","a","p","i",".","c",
                      "o","m","/">> \o locals[p].inspiring_verses[i]
                    \o <<"?","t","r","a","n","s","l","a","t","i","o","n","=">>, url[p])

C8_Witness ==
  \E p \in Procs :
    /\ tool[p] = "get_random_verse" /\ pc[p] = "waiting"
    /\ url[p] = <<"h","t","t","p","s",":","/","/","b","i","b","l","e","-","a","p","i",".","c","o",
                  "m","/","I","s","a","i","a","h"," ","4","1",":","1","0","?","t","r","a","n","s",
                  "l","a","t","i","o","n","=","w","e","b">>
    /\ rng_state = 0

RunAlone(t, a, r) ==
  CASE t = "get_verse" -> get_verse_result(a.reference, r)
    [] t = "search_verses" -> search_verses_result(a.query, OrDefault(a.limit, PyInt(10)), r)
    [] t = "get_chapter" -> get_chapter_result(r)
    [] t = "get_random_verse" -> get_random_verse_result(r)

FrameOf(p) ==
  <<pc[p], tool[p], args[p], locals[p], url[p], gets[p], response[p], body_read[p], outcome[p]>>

=============================================================================
